---- MODULE Spec2Model ----
(***************************************************************************)
(* Model of phone_agent/adb/screenshot.py: get_screenshot and its helpers  *)
(* _run, _get_single_device, _build_adb_prefix and _black_fallback.        *)
(*                                                                         *)
(* Two invocations of get_screenshot run concurrently.  Every external     *)
(* step (adb devices, adb shell screencap, adb pull, Image.open,           *)
(* os.remove, adb shell rm) is one atomic action whose outcome is drawn    *)
(* nondeterministically; the try/except of get_screenshot is part of the   *)
(* action in which the exception is raised.  The device's fixed remote     *)
(* path and the local temporary directory are shared file systems.         *)
(***************************************************************************)
EXTENDS Integers, Sequences, FiniteSets, TLC

VARIABLES
    pc,        \* pc[c]: position of invocation c inside get_screenshot
    arg,       \* arg[c]: the device_id parameter
    devices,   \* devices[c]: local `devices` of _get_single_device
    real_id,   \* real_id[c]: local `real_id`, UNBOUND until line 75 completes
    local,     \* local[c]: local `local` (uuid of scr_<uuid>.png), UNBOUND until line 77
    img,       \* img[c]: the file content decoded at lines 88-92
    results,   \* results[c]: the Screenshot objects returned by invocation c
    log,       \* log[c]: the adb commands invocation c has issued, in order
    exc,       \* exc[c]: the exception bound by `except Exception as exc`, "" if none
    obs,       \* obs[c]: what the environment answered at each step
    remoteFS,  \* remoteFS[d]: content of /sdcard/tmp_screenshot.png on device d
    localFS,   \* localFS[u]: content of <tmp>/scr_<u>.png
    issued     \* uuids handed out by uuid.uuid4()

vars == <<pc, arg, devices, real_id, local, img, results, log, exc, obs, remoteFS, localFS, issued>>

----------------------------------------------------------------------------
(* Bounds *)

\* longest `adb devices` listing (device lines after the header)
MaxLines == 2

Calls == {1, 2}
Other(c) == 3 - c

----------------------------------------------------------------------------
(* Values *)

NONE == "<None>"          \* Python None passed as device_id
UNBOUND == "<unbound>"    \* a local name not yet in locals()
TAB == "\t"
Serials == {"A", "B", ""}
Args == {NONE, "", "A", "B"}
\* the values uuid.uuid4().hex takes
UUIDs == {"u1", "u2"}

\* file contents: the capture made by invocation `by` of the screen of `dev`
NoFile == [by |-> 0, dev |-> "<none>"]
Capture(c, d) == [by |-> c, dev |-> d]

\* pixel size of the screen of each device
ScreenW(d) == IF d = "A" THEN 720 ELSE IF d = "B" THEN 1440 ELSE 480
ScreenH(d) == IF d = "A" THEN 1280 ELSE IF d = "B" THEN 3200 ELSE 800

\* texts screencap may print on a stream: a sequence of phrases
Texts == {<<>>, <<"Status: -1">>, <<"Failed">>}
Contains(text, phrase) == \E i \in 1..Len(text) : text[i] = phrase

\* outcomes of subprocess.run: exit 0, exit non-zero, TimeoutExpired, OSError
Outcomes == {"ok", "nonzero", "timeout", "raise"}

NoObs == [list |-> "-", ready |-> <<>>, cap |-> "-", capOut |-> <<>>, capErr |-> <<>>,
          pull |-> "-", decode |-> "-", remove |-> "-", rm |-> "-"]

----------------------------------------------------------------------------
(* _run, lines 33-38 *)

\* the exception _run leaves with, "" when it returns cp.stdout
RunExc(outcome) ==
    CASE outcome = "ok"      -> ""
      [] outcome = "nonzero" -> "RuntimeError"
      [] outcome = "timeout" -> "TimeoutExpired"
      [] outcome = "raise"   -> "OSError"

(* _get_single_device, lines 41-47 *)

\* an attached device as adb sees it: its serial and its state
Attached == Serials \X {"device", "offline"}

\* the line `adb devices` prints for it, as tokens: serial, tab, state
Header == <<"List of devices attached">>
DevLine(d) == IF d[1] = "" THEN <<TAB, d[2]>> ELSE <<d[1], TAB, d[2]>>

\* the listings adb may have to print, and what it prints for one: the header,
\* a line per device, a closing blank line
Listings == UNION {[1..n -> Attached] : n \in 0..MaxLines}
DevOutput(listing) ==
    <<Header>> \o [i \in 1..Len(listing) |-> DevLine(listing[i])] \o << <<>> >>

\* the serials of the devices of a listing that are in the "device" state
RECURSIVE ReadySerials(_)
ReadySerials(listing) ==
    IF listing = <<>> THEN <<>>
    ELSE IF Head(listing)[2] = "device"
         THEN <<Head(listing)[1]>> \o ReadySerials(Tail(listing))
         ELSE ReadySerials(Tail(listing))

\* str.strip() then splitlines(): blank lines and tabs at both ends go
RECURSIVE LStrip(_)
LStrip(lines) ==
    IF lines = <<>> THEN <<>>
    ELSE IF Head(lines) = <<>> THEN LStrip(Tail(lines))
    ELSE IF Head(Head(lines)) = TAB THEN LStrip(<<Tail(Head(lines))>> \o Tail(lines))
    ELSE lines

RECURSIVE Reverse(_)
Reverse(s) == IF s = <<>> THEN <<>> ELSE Append(Reverse(Tail(s)), Head(s))

ReverseText(lines) == Reverse([i \in 1..Len(lines) |-> Reverse(lines[i])])

Strip(lines) == ReverseText(LStrip(ReverseText(LStrip(lines))))

\* ln.endswith("\tdevice")
EndsWithTabDevice(ln) ==
    Len(ln) >= 2 /\ ln[Len(ln) - 1] = TAB /\ ln[Len(ln)] = "device"

\* ln.split("\t")[0]
SplitFirst(ln) == IF ln = <<>> \/ ln[1] = TAB THEN "" ELSE ln[1]

RECURSIVE ReadyDevices(_)
ReadyDevices(lines) ==
    IF lines = <<>> THEN <<>>
    ELSE IF EndsWithTabDevice(Head(lines))
         THEN <<SplitFirst(Head(lines))>> \o ReadyDevices(Tail(lines))
         ELSE ReadyDevices(Tail(lines))

ParseDevices(out) == ReadyDevices(Strip(out))

\* line 45 with `len(devices) < 1` in place of `len(devices) != 1`
SingleDeviceAtLeastOne(devs) == Len(devs) >= 1

\* line 45
SingleDeviceOk(devs) == Len(devs) = 1

(* _build_adb_prefix, lines 50-53 *)

\* `device_id or ...`: None and "" are falsy
Truthy(device_id) == device_id # NONE /\ device_id # ""

(* _black_fallback, lines 56-65 *)

FallbackW == 1080
FallbackH == 2400
BlackPng == [fmt |-> "PNG", pix |-> [by |-> 0, dev |-> "<black>"]]

_black_fallback(device_id, is_sensitive) ==
    [base64_data |-> BlackPng, width |-> FallbackW, height |-> FallbackH,
     device_id |-> device_id, is_sensitive |-> is_sensitive]

(* get_screenshot, lines 69-112 *)

\* line 81
IsRefusal(out) == Contains(out, "Status: -1") \/ Contains(out, "Failed")

\* lines 98-104
RealShot(content, rid) ==
    [base64_data |-> [fmt |-> "PNG", pix |-> content],
     width |-> ScreenW(content.dev), height |-> ScreenH(content.dev),
     device_id |-> rid, is_sensitive |-> FALSE]

\* line 106 with `except RuntimeError`
CaughtRuntimeOnly(e) == e = "RuntimeError"

\* line 106: `except Exception`
Caught(e) == e \in {"RuntimeError", "TimeoutExpired", "OSError", "UnidentifiedImageError"}

\* line 110 without the `real_id if "real_id" in locals()` branch
HandlerDeviceIdArgOnly(c) == IF Truthy(arg[c]) THEN arg[c] ELSE "unknown"

\* line 110
HandlerDeviceId(c) ==
    IF real_id[c] # UNBOUND THEN real_id[c]
    ELSE IF Truthy(arg[c]) THEN arg[c] ELSE "unknown"

\* uuid.uuid4() returns a value it has not returned before
FreshUUIDs == UUIDs \ issued
\* line 77 with a fixed file name in place of the uuid
LocalNameFixed(c, u) == "u1"

\* line 77: the name is made of the uuid alone
LocalName(c, u) == u

\* the try body goes on to its next statement
Goto(c, label) ==
    /\ pc' = [pc EXCEPT ![c] = label]
    /\ UNCHANGED <<results, exc>>

\* lines 82 and 98-104: a return from inside the try body
Return(c, shot) ==
    /\ pc' = [pc EXCEPT ![c] = "returned"]
    /\ results' = [results EXCEPT ![c] = Append(@, shot)]
    /\ UNCHANGED exc

\* lines 106-112: an exception leaves the try body
Handle(c, e) ==
    IF Caught(e)
    THEN /\ pc' = [pc EXCEPT ![c] = "returned"]
         /\ exc' = [exc EXCEPT ![c] = e]
         /\ results' = [results EXCEPT ![c] =
                           Append(@, _black_fallback(HandlerDeviceId(c), FALSE))]
    ELSE /\ pc' = [pc EXCEPT ![c] = "raised"]
         /\ exc' = [exc EXCEPT ![c] = e]
         /\ UNCHANGED results

----------------------------------------------------------------------------
\* two invocations are about to start; no device holds a leftover remote file
\* and the temporary directory holds no scr_*.png
Init ==
    /\ pc = [c \in Calls |-> "start"]
    /\ arg \in [Calls -> Args]
    /\ devices = [c \in Calls |-> <<>>]
    /\ real_id = [c \in Calls |-> UNBOUND]
    /\ local = [c \in Calls |-> UNBOUND]
    /\ img = [c \in Calls |-> NoFile]
    /\ results = [c \in Calls |-> <<>>]
    /\ log = [c \in Calls |-> <<>>]
    /\ exc = [c \in Calls |-> ""]
    /\ obs = [c \in Calls |-> NoObs]
    /\ remoteFS = [d \in Serials |-> NoFile]
    /\ localFS = [u \in UUIDs |-> NoFile]
    /\ issued = {}

\* lines 75-77 with a device_id given: no command is run
BuildPrefixGiven(c) ==
    /\ pc[c] = "start"
    /\ Truthy(arg[c])
    /\ \E u \in FreshUUIDs :
         /\ local' = [local EXCEPT ![c] = LocalName(c, u)]
         /\ issued' = issued \cup {u}
    /\ real_id' = [real_id EXCEPT ![c] = arg[c]]
    /\ Goto(c, "screencap")
    /\ UNCHANGED <<arg, devices, img, log, obs, remoteFS, localFS>>

\* lines 75-77 without a device_id: _get_single_device runs `adb devices`
ListDevices(c) ==
    /\ pc[c] = "start"
    /\ ~Truthy(arg[c])
    /\ log' = [log EXCEPT ![c] = Append(@, "devices")]
    /\ \/ \E outcome \in Outcomes \ {"ok"} :
            \* line 43: _run raises
            /\ obs' = [obs EXCEPT ![c].list = outcome]
            /\ Handle(c, RunExc(outcome))
            /\ UNCHANGED <<devices, real_id, local, issued>>
       \/ \E listing \in Listings :
            LET devs == ParseDevices(DevOutput(listing)) IN
            /\ obs' = [obs EXCEPT ![c].list = "ok", ![c].ready = ReadySerials(listing)]
            /\ devices' = [devices EXCEPT ![c] = devs]
            /\ IF SingleDeviceOk(devs)
               THEN /\ real_id' = [real_id EXCEPT ![c] = devs[1]]
                    /\ \E u \in FreshUUIDs :
                         /\ local' = [local EXCEPT ![c] = LocalName(c, u)]
                         /\ issued' = issued \cup {u}
                    /\ Goto(c, "screencap")
               ELSE \* line 46
                    /\ Handle(c, "RuntimeError")
                    /\ UNCHANGED <<real_id, local, issued>>
    /\ UNCHANGED <<arg, img, remoteFS, localFS>>

\* lines 80-82: adb -s real_id shell screencap -p remote
Screencap(c) ==
    /\ pc[c] = "screencap"
    /\ log' = [log EXCEPT ![c] = Append(@, "screencap")]
    /\ \E outcome \in Outcomes, out \in Texts, err \in Texts :
         /\ outcome = "timeout" \/ outcome = "raise" => out = <<>> /\ err = <<>>
         /\ obs' = [obs EXCEPT ![c].cap = outcome, ![c].capOut = out, ![c].capErr = err]
         \* the device writes the file only when it makes the capture
         /\ remoteFS' = IF outcome = "ok" /\ ~IsRefusal(out) /\ ~IsRefusal(err)
                        THEN [remoteFS EXCEPT ![real_id[c]] = Capture(c, real_id[c])]
                        ELSE remoteFS
         /\ IF RunExc(outcome) # "" THEN Handle(c, RunExc(outcome))
            ELSE IF IsRefusal(out) THEN Return(c, _black_fallback(real_id[c], TRUE))
            ELSE /\ Goto(c, "pull")
    /\ UNCHANGED <<arg, devices, real_id, local, img, localFS, issued>>

\* line 85: adb -s real_id pull remote local
Pull(c) ==
    /\ pc[c] = "pull"
    /\ log' = [log EXCEPT ![c] = Append(@, "pull")]
    /\ \E outcome \in Outcomes :
         \* adb pull of a remote file that is not there exits non-zero
         LET actual == IF outcome = "ok" /\ remoteFS[real_id[c]] = NoFile
                       THEN "nonzero" ELSE outcome IN
         /\ obs' = [obs EXCEPT ![c].pull = outcome]
         /\ IF RunExc(actual) # ""
            THEN /\ Handle(c, RunExc(actual))
                 /\ UNCHANGED localFS
            ELSE /\ localFS' = [localFS EXCEPT ![local[c]] = remoteFS[real_id[c]]]
                 /\ Goto(c, "decode")
    /\ UNCHANGED <<arg, devices, real_id, local, img, remoteFS, issued>>

\* lines 88-92: Image.open(local), img.size, img.save, b64encode
Decode(c) ==
    /\ pc[c] = "decode"
    /\ \E outcome \in {"ok", "raise"} :
         /\ obs' = [obs EXCEPT ![c].decode = outcome]
         /\ IF localFS[local[c]] = NoFile THEN Handle(c, "OSError") /\ UNCHANGED img
            ELSE IF outcome = "raise" THEN Handle(c, "UnidentifiedImageError") /\ UNCHANGED img
            ELSE /\ img' = [img EXCEPT ![c] = localFS[local[c]]]
                 /\ Goto(c, "remove")
    /\ UNCHANGED <<arg, devices, real_id, local, log, remoteFS, localFS, issued>>

\* line 95: os.remove(local)
Remove(c) ==
    /\ pc[c] = "remove"
    /\ \E outcome \in {"ok", "raise"} :
         /\ obs' = [obs EXCEPT ![c].remove = outcome]
         /\ IF localFS[local[c]] = NoFile \/ outcome = "raise"
            THEN Handle(c, "OSError") /\ UNCHANGED localFS
            ELSE /\ localFS' = [localFS EXCEPT ![local[c]] = NoFile]
                 /\ Goto(c, "rm")
    /\ UNCHANGED <<arg, devices, real_id, local, img, log, remoteFS, issued>>

\* lines 96-104: adb -s real_id shell rm -f remote, then return the Screenshot
RemoteRm(c) ==
    /\ pc[c] = "rm"
    /\ log' = [log EXCEPT ![c] = Append(@, "rm")]
    /\ \E outcome \in Outcomes :
         /\ obs' = [obs EXCEPT ![c].rm = outcome]
         /\ IF RunExc(outcome) # ""
            THEN Handle(c, RunExc(outcome)) /\ UNCHANGED remoteFS
            ELSE /\ remoteFS' = [remoteFS EXCEPT ![real_id[c]] = NoFile]
                 /\ Return(c, RealShot(img[c], real_id[c]))
    /\ UNCHANGED <<arg, devices, real_id, local, img, localFS, issued>>

\* one invocation's step
Step(c) ==
    \/ BuildPrefixGiven(c) \/ ListDevices(c) \/ Screencap(c) \/ Pull(c)
    \/ Decode(c) \/ Remove(c) \/ RemoteRm(c)

Next ==
    \E c \in Calls :
        \/ BuildPrefixGiven(c)
        \/ ListDevices(c)
        \/ Screencap(c)
        \/ Pull(c)
        \/ Decode(c)
        \/ Remove(c)
        \/ RemoteRm(c)

Spec == Init /\ [][Next]_vars

----------------------------------------------------------------------------
(* Properties *)

Returned(c) == pc[c] = "returned"
Res(c) == results[c][1]
IsFallback(shot) ==
    /\ shot.width = FallbackW /\ shot.height = FallbackH
    /\ shot.base64_data = BlackPng
Issued(c, cmd) == \E i \in 1..Len(log[c]) : log[c][i] = cmd
CapMarked(c) == IsRefusal(obs[c].capOut) \/ IsRefusal(obs[c].capErr)

\* C1: whatever the outcomes of the external steps, no exception leaves
\* get_screenshot, an invocation that has not returned can always take its
\* next step, and it has returned exactly one Screenshot when it ends.
C1_ReturnsExactlyOne ==
    \A c \in Calls :
        /\ pc[c] # "raised"
        /\ Len(results[c]) = (IF Returned(c) THEN 1 ELSE 0)
        /\ Returned(c) \/ ENABLED Step(c)

C1_Witness ==
    /\ \A c \in Calls : Returned(c) /\ Len(results[c]) = 1
    /\ exc[1] = "TimeoutExpired" /\ obs[1].cap = "timeout"
    /\ exc[2] = "UnidentifiedImageError"

\* C2: whenever the screencap output carries a refusal marker, on either
\* stream and with any exit status, the result is the 1080x2400 placeholder
\* with is_sensitive = true.
C2_MarkerMeansSensitive ==
    \A c \in Calls :
        Returned(c) /\ CapMarked(c) =>
            /\ Res(c).is_sensitive
            /\ Res(c).width = 1080 /\ Res(c).height = 2400

\* C3: once capture, pull and decode have succeeded, a failing remote rm
\* (non-zero exit or timeout) still yields the captured image with its true
\* size and is_sensitive = false.
C3_CleanupFailureKeepsImage ==
    \A c \in Calls :
        Returned(c) /\ obs[c].rm \in {"nonzero", "timeout"} =>
            /\ Res(c).base64_data = [fmt |-> "PNG", pix |-> img[c]]
            /\ Res(c).width = ScreenW(img[c].dev)
            /\ Res(c).height = ScreenH(img[c].dev)
            /\ ~Res(c).is_sensitive

\* C4: once the device id is resolved, a step that fails for any reason other
\* than the refusal marker makes the result the fallback with
\* is_sensitive = false, size 1080x2400 and the resolved device id.
C4_FailureAfterResolution ==
    \A c \in Calls :
        Returned(c) /\ real_id[c] # UNBOUND /\ exc[c] # "" =>
            /\ IsFallback(Res(c))
            /\ Res(c).width = 1080 /\ Res(c).height = 2400
            /\ ~Res(c).is_sensitive
            /\ Res(c).device_id = real_id[c]
            /\ Res(c).device_id # "unknown"
            /\ Res(c).device_id = (IF Truthy(arg[c]) THEN arg[c] ELSE obs[c].ready[1])

C4_Witness ==
    /\ Returned(1) /\ arg[1] = NONE /\ obs[1].ready = <<"B">>
    /\ obs[1].pull = "nonzero" /\ exc[1] = "RuntimeError"
    /\ Res(1).device_id = "B"

\* C5: without a device id, exactly one ready device makes the result carry
\* that device's id whatever happens later; any other listing, or a failed
\* listing, issues no capture and gives the fallback with device_id "unknown".
C5_SingleDeviceResolution ==
    \A c \in Calls :
        Returned(c) /\ ~Truthy(arg[c]) =>
            IF obs[c].list = "ok" /\ Len(obs[c].ready) = 1
            THEN Res(c).device_id = obs[c].ready[1]
            ELSE /\ ~Issued(c, "screencap")
                 /\ IsFallback(Res(c))
                 /\ Res(c).width = 1080 /\ Res(c).height = 2400
                 /\ ~Res(c).is_sensitive
                 /\ Res(c).device_id = "unknown"

C5_Witness ==
    /\ Returned(1) /\ arg[1] = NONE /\ obs[1].ready = <<"A">>
    /\ obs[1].rm = "ok" /\ Res(1).device_id = "A"
    /\ Returned(2) /\ arg[2] = NONE /\ obs[2].ready = <<"A", "B">>
    /\ Res(2).device_id = "unknown"

\* C6: the device_id of every returned result is a non-empty string.
C6_DeviceIdNonEmpty ==
    \A c \in Calls : Returned(c) => Res(c).device_id # ""

\* what invocation c returns when nothing else touches its device or files
AloneResult(c) ==
    LET rid == arg[c] IN
    IF obs[c].cap # "ok" THEN _black_fallback(rid, FALSE)
    ELSE IF IsRefusal(obs[c].capOut) THEN _black_fallback(rid, TRUE)
    ELSE IF IsRefusal(obs[c].capErr) THEN _black_fallback(rid, FALSE)
    ELSE IF obs[c].pull # "ok" \/ obs[c].decode # "ok"
            \/ obs[c].remove # "ok" \/ obs[c].rm # "ok"
         THEN _black_fallback(rid, FALSE)
    ELSE RealShot(Capture(c, rid), rid)

DistinctExplicit == Truthy(arg[1]) /\ Truthy(arg[2]) /\ arg[1] # arg[2]

\* C7: two concurrent invocations with explicit, distinct device ids use
\* distinct local paths, never see each other's local file, and each returns
\* what it would return alone.
C7_DistinctDevicesIndependent ==
    DistinctExplicit =>
        /\ local[1] # UNBOUND /\ local[2] # UNBOUND => local[1] # local[2]
        /\ \A c \in Calls :
             /\ local[c] # UNBOUND /\ localFS[local[c]] # NoFile => localFS[local[c]].by = c
             /\ img[c] # NoFile => img[c].by = c
             /\ Returned(c) => Res(c) = AloneResult(c)

C7_Witness ==
    /\ DistinctExplicit
    /\ \A c \in Calls : Returned(c) /\ Res(c) = RealShot(Capture(c, arg[c]), arg[c])

\* every command of invocation c was answered with success
AllOk(c) ==
    /\ real_id[c] # UNBOUND
    /\ obs[c].list \in {"-", "ok"}
    /\ obs[c].cap = "ok" /\ ~CapMarked(c)
    /\ obs[c].pull = "ok"
    /\ obs[c].decode \in {"-", "ok"} /\ obs[c].remove \in {"-", "ok"}
    /\ obs[c].rm \in {"-", "ok"}

\* C8: an invocation all of whose commands would succeed alone returns
\* something other than its own capture only when the other invocation
\* targets the same device; and that does happen (see the witness).
C8_SameDeviceHazardOnly ==
    \A c \in Calls :
        Returned(c) /\ AllOk(c) /\ Res(c) # RealShot(Capture(c, real_id[c]), real_id[c])
            => /\ real_id[Other(c)] = real_id[c]
               /\ Issued(Other(c), "screencap")

C8_Witness ==
    /\ Returned(1) /\ Returned(2) /\ AllOk(1) /\ AllOk(2)
    /\ real_id[1] = real_id[2]
    /\ Res(1) = RealShot(Capture(2, real_id[1]), real_id[1])
    /\ IsFallback(Res(2)) /\ obs[2].decode = "-"

\* C9: each command is issued at most once and in the order devices,
\* screencap, pull, rm; devices only without a device id; pull only after a
\* screencap that exited zero without refusal marker; rm only after pull,
\* decode and local delete succeeded.
CmdRank(cmd) ==
    CASE cmd = "devices" -> 1 [] cmd = "screencap" -> 2 [] cmd = "pull" -> 3 [] cmd = "rm" -> 4

C9_SingleAttemptInOrder ==
    \A c \in Calls :
        /\ \A i, j \in 1..Len(log[c]) : i < j => CmdRank(log[c][i]) < CmdRank(log[c][j])
        /\ Issued(c, "devices") => ~Truthy(arg[c])
        /\ Issued(c, "pull") => obs[c].cap = "ok" /\ ~CapMarked(c)
        /\ Issued(c, "rm") =>
             obs[c].pull = "ok" /\ obs[c].decode = "ok" /\ obs[c].remove = "ok"

\* C10: on every return path the local file scr_<uuid>.png of the invocation
\* no longer exists.
C10_LocalFileGone ==
    \A c \in Calls :
        Returned(c) /\ local[c] # UNBOUND => localFS[local[c]] = NoFile

====
